---- MODULE Spec2Model ----
(***************************************************************************)
(* The grid model, the event adapter (impl RedrawEvents for Ui), the       *)
(* toolkit draw callback (gtk_draw) and the shape/paint pipeline           *)
(* (render::shape_dirty, render::render) of neovim-gtk.                    *)
(*                                                                         *)
(* src/src/ui.rs and src/src/render/mod.rs are modelled from the code.     *)
(* The ui_model, color and render::context modules they call are not part  *)
(* of the sources at hand; their operations are modelled from the          *)
(* specification's description (sections 3, 4.1-4.3).                       *)
(*                                                                         *)
(* Rows, columns and cursor coordinates are 0-based as in the code;        *)
(* sequences are 1-based, so cell (row, col) is grid[row+1].line[col+1].   *)
(***************************************************************************)
EXTENDS Integers, Sequences, FiniteSets, TLC

\* ------------------------------------------------------------------ bounds

MaxRows == 2
MaxCols == 3
MaxEvents == 4

\* Texts of put events; " " is the blank of an empty cell.
Texts == {<<"A">>, <<"A", "B">>}

\* Coordinates of cursor-move events: the first and last row and the first
\* two and the last column of the largest grid, and one row and one column
\* past it.
Gotos ==
    ({0, MaxRows - 1} \X {0, 1, MaxCols - 1})
    \cup {<<MaxRows, 0>>, <<0, MaxCols>>}

\* Dimensions of resize events, <<columns, rows>>.
Sizes == {1, MaxCols} \X {1, MaxRows}

\* ------------------------------------------------------------------ options

None == <<>>
Some(x) == <<x>>
IsSome(o) == o /= <<>>
Unwrap(o) == o[1]

\* ------------------------------------------------------------------ colours

\* A colour component is the quotient num/den of the f64 division, kept as the
\* pair <<num, den>>; den = 0 is the f64 infinity (or NaN for 0/0).
Frac(n, d) == <<n, d>>

\* ((indexed_color >> s) & 0xff)
Channel(indexed_color, shift) == (indexed_color \div (2 ^ shift)) % 256

\* Color(255.0 / r, 255.0 / g, 255.0 / b)
split_color(indexed_color) ==
    LET r == Channel(indexed_color, 16)
        g == Channel(indexed_color, 8)
        b == Channel(indexed_color, 0)
    IN  <<Frac(255, r), Frac(255, g), Frac(255, b)>>

COLOR_BLACK == <<Frac(0, 1), Frac(0, 1), Frac(0, 1)>>
COLOR_WHITE == <<Frac(1, 1), Frac(1, 1), Frac(1, 1)>>

\* ------------------------------------------------------------------ attributes

\* Attrs::new(): the default attribute set.
AttrsNew ==
    [foreground |-> COLOR_WHITE, background |-> COLOR_BLACK,
     bold |-> FALSE, italic |-> FALSE]

\* A highlight map is a set of <<key, value>> pairs with distinct keys.  A value
\* is an rmp Value: an unsigned integer, or some other shape.
U64(n) == [t |-> "u64", v |-> n]
StrVal == [t |-> "str", v |-> 0]
BoolVal == [t |-> "bool", v |-> 1]

contains_key(attrs, k) == \E p \in attrs : p[1] = k

\* attrs.get(k) taken as a number whatever the shape of the value.
GetAnyValue(attrs, k) ==
    IF \E p \in attrs : p[1] = k
    THEN Some((CHOOSE p \in attrs : p[1] = k)[2].v)
    ELSE None

\* attrs.get(k) matched against Some(&Value::Integer(Integer::U64(x)))
GetU64(attrs, k) ==
    IF \E p \in attrs : p[1] = k /\ p[2].t = "u64"
    THEN Some((CHOOSE p \in attrs : p[1] = k /\ p[2].t = "u64")[2].v)
    ELSE None

\* The highlight maps the editor sends in this model.
HlMaps ==
    { {},
      {<<"reverse", BoolVal>>},
      {<<"foreground", U64(16711680)>>, <<"bold", BoolVal>>},
      {<<"foreground", U64(16711680)>>, <<"background", U64(255)>>,
       <<"reverse", BoolVal>>},
      {<<"foreground", StrVal>>, <<"background", U64(255)>>,
       <<"italic", BoolVal>>},
      {<<"foreground", U64(255)>>, <<"background", StrVal>>,
       <<"reverse", BoolVal>>, <<"bold", BoolVal>>} }

\* mem::swap(&mut model_attrs.foreground, &mut model_attrs.background)
SwapColors(a) ==
    [a EXCEPT !.foreground = a.background, !.background = a.foreground]

\* The Attrs that on_highlight_set builds from the map.
HighlightAttrs(attrs) ==
    LET a0 == AttrsNew
        fg == GetU64(attrs, "foreground")
        a1 == IF IsSome(fg)
              THEN [a0 EXCEPT !.foreground = split_color(Unwrap(fg))] ELSE a0
        bg == GetU64(attrs, "background")
        a2 == IF IsSome(bg)
              THEN [a1 EXCEPT !.background = split_color(Unwrap(bg))] ELSE a1
        a3 == IF contains_key(attrs, "reverse") THEN SwapColors(a2) ELSE a2
    IN  [a3 EXCEPT !.bold = contains_key(attrs, "bold"),
                   !.italic = contains_key(attrs, "italic")]

\* ------------------------------------------------------------------ grid model

\* Cell::new(' '): a blank cell; a fresh cell has not been shaped yet.
CellNew == [ch |-> " ", attrs |-> AttrsNew, dirty |-> TRUE]

\* Line::new(columns)
LineNew(columns) ==
    [line |-> [c \in 1..columns |-> CellNew],
     item_line |-> [c \in 1..columns |-> None],
     dirty_line |-> TRUE]

\* UiModel::new(rows, columns): a blank grid, every line dirty, cursor and
\* write position at (0, 0).
UiModelNew(rows, columns) ==
    [model |-> [r \in 1..rows |-> LineNew(columns)],
     rows |-> rows, columns |-> columns,
     cur_row |-> 0, cur_col |-> 0,
     put_row |-> 0, put_col |-> 0]

\* UiModel::empty()
UiModelEmpty == UiModelNew(0, 0)

\* UiModel::set_cursor(row, col): stores the display cursor; the next put
\* writes from there.
SetCursor(m, row, col) ==
    [m EXCEPT !.cur_row = row, !.cur_col = col,
              !.put_row = row, !.put_col = col]

\* The columns (0-based) a put of text writes: from the write position to the
\* line's bound, on a row of the grid.
PutCols(m, text) ==
    IF m.put_row < m.rows
    THEN {c \in 0..(m.columns - 1) :
            c >= m.put_col /\ c < m.put_col + Len(text)}
    ELSE {}

\* UiModel::put(text, attrs): writes text's characters from the write
\* position, truncating at the line's bound; marks the written cells and
\* their line dirty; advances the write position.
Put(m, text, attrs) ==
    LET a == IF IsSome(attrs) THEN Unwrap(attrs) ELSE AttrsNew
        cols == PutCols(m, text)
        r == m.put_row + 1
        newline(l) ==
            [l EXCEPT
               !.line = [c \in 1..m.columns |->
                           IF (c - 1) \in cols
                           THEN [ch |-> text[c - m.put_col], attrs |-> a,
                                 dirty |-> TRUE]
                           ELSE l.line[c]],
               !.dirty_line = TRUE]
        written == IF cols = {} THEN m
                   ELSE [m EXCEPT !.model[r] = newline(m.model[r])]
        adv == m.put_col + Len(text)
    IN  [written EXCEPT
           !.put_col = IF m.put_col >= m.columns THEN m.put_col
                       ELSE IF adv > m.columns THEN m.columns ELSE adv]

\* UiModel::clear(): every cell blank with default attributes, every line
\* dirty.
Clear(m) ==
    [m EXCEPT !.model =
        [r \in 1..m.rows |->
            [m.model[r] EXCEPT
               !.line = [c \in 1..m.columns |-> CellNew],
               !.dirty_line = TRUE]]]

\* UiModel::get_cursor()
GetCursor(m) == <<m.cur_row, m.cur_col>>

\* ------------------------------------------------------------------ colour model

\* color_model.bg_color: the frame's default background.
bg_color == COLOR_BLACK

\* ColorModel::cell_bg(cell): None when the cell uses the frame's default
\* background.
cell_bg(cell) ==
    IF cell.attrs.background = bg_color THEN None
    ELSE Some(cell.attrs.background)

\* ColorModel::cell_colors(cell) -> (background, foreground)
cell_colors(cell) == <<cell_bg(cell), cell.attrs.foreground>>

\* ColorModel::actual_cell_bg(cell)
actual_cell_bg(cell) == cell.attrs.background

\* ------------------------------------------------------------------ shaping context

\* CellMetrics { line_height, char_width, .. } and font_ctx.ascent()
char_width == 2
line_height == 3
ascent == 1

\* A cell that belongs to a styled run: anything but a blank cell with the
\* default attributes.
Styled(cell) == cell.ch /= " " \/ cell.attrs /= AttrsNew

\* StyledLine::from(line, color_model): the line's flattened text and the
\* attributes of each of its cells.
StyledLineFrom(line) ==
    [line_str |-> [c \in 1..Len(line.line) |-> line.line[c].ch],
     attrs |-> [c \in 1..Len(line.line) |-> line.line[c].attrs],
     styled |-> [c \in 1..Len(line.line) |-> Styled(line.line[c])]]

\* Whether a run starts at (1-based) position c of the styled line.
RunStartsAt(sl, c) ==
    /\ sl.styled[c]
    /\ \/ c = 1
       \/ ~sl.styled[c - 1]
       \/ sl.attrs[c - 1] /= sl.attrs[c]

\* The length of the run that starts at position c: the adjacent styled cells
\* with the attributes of c.
RunLen(sl, c) ==
    LET n == Len(sl.line_str)
        same(d) == \A e \in c..d : sl.styled[e] /\ sl.attrs[e] = sl.attrs[c]
    IN  (CHOOSE d \in c..n : same(d) /\ (d = n \/ ~same(d + 1))) - c + 1

\* Context::itemize(styled_line): the item of each position where a run
\* starts (offset, length, analysis), None elsewhere.
Itemize(sl) ==
    [c \in 1..Len(sl.line_str) |->
        IF RunStartsAt(sl, c)
        THEN Some([offset |-> c - 1, length |-> RunLen(sl, c),
                   analysis |-> [bold |-> sl.attrs[c].bold,
                                 italic |-> sl.attrs[c].italic]])
        ELSE None]

\* Line::merge(styled_line, items): the new mapping of columns to runs.  A run
\* that starts where a run of the same length started keeps that run's
\* glyphs; any other run has none yet.
Merge(line, items) ==
    [line EXCEPT !.item_line =
        [c \in 1..Len(line.line) |->
            IF IsSome(items[c])
            THEN LET new == Unwrap(items[c])
                     old == line.item_line[c]
                 IN  Some([offset |-> new.offset, length |-> new.length,
                           analysis |-> new.analysis,
                           glyphs |-> IF IsSome(old)
                                         /\ Unwrap(old).length = new.length
                                      THEN Unwrap(old).glyphs
                                      ELSE None])
            ELSE None]]

\* pango_shape(line_str, offset, length, analysis, glyphs): the glyph string
\* of a span, a function of the span's text and the font.
pango_shape(line_str, offset, length, analysis) ==
    [text |-> SubSeq(line_str, offset + 1, offset + length),
     font |-> analysis]

\* Line::item_len_from_idx(col), col 0-based: the length of the run that
\* starts at col.
item_len_from_idx(line, col) ==
    IF IsSome(line.item_line[col + 1])
    THEN Unwrap(line.item_line[col + 1]).length
    ELSE 1

\* Line::is_binded_to_item(col), col 0-based: col is covered by a run.
is_binded_to_item(line, col) ==
    \E s \in 0..col :
        /\ IsSome(line.item_line[s + 1])
        /\ col < s + Unwrap(line.item_line[s + 1]).length

\* ------------------------------------------------------------------ shape_dirty

\* A call the shape phase makes to the shaping context.
Call(fn, row, col) == [fn |-> fn, row |-> row, col |-> col]

\* The same, stopping one cell short of the line's end.
ClearCellsButLast(merged) ==
    [i \in 1..Len(merged.line) |->
        IF i < Len(merged.line) THEN [merged.line[i] EXCEPT !.dirty = FALSE]
        ELSE merged.line[i]]

\* The same, with the flag cleared only inside the branch that shapes a run.
ClearCellsOfRuns(merged) ==
    [i \in 1..Len(merged.line) |->
        IF IsSome(merged.item_line[i])
        THEN [merged.line[i] EXCEPT !.dirty = FALSE]
        ELSE merged.line[i]]

\* line[i].dirty = false, for every cell of the line.
ClearCells(merged) ==
    [i \in 1..Len(merged.line) |-> [merged.line[i] EXCEPT !.dirty = FALSE]]

\* The inner loop's shaping: the run that starts at a dirty cell gets the
\* glyphs of its span of line_str; every other entry is left as merged.
ShapeItems(merged, line_str) ==
    [i \in 1..Len(merged.line) |->
        IF merged.line[i].dirty /\ IsSome(merged.item_line[i])
        THEN LET item == Unwrap(merged.item_line[i])
             IN  Some([item EXCEPT !.glyphs =
                    Some(pango_shape(line_str, item.offset, item.length,
                                     item.analysis))])
        ELSE merged.item_line[i]]

\* The line after the body of shape_dirty's loop, and the calls it made.
ShapeLine(line, row) ==
    LET styled_line == StyledLineFrom(line)
        items == Itemize(styled_line)
        merged == Merge(line, items)
        shaped == {i \in 1..Len(line.line) :
                     merged.line[i].dirty /\ IsSome(merged.item_line[i])}
    IN  [line |-> [line |-> ClearCells(merged),
                   item_line |-> ShapeItems(merged, styled_line.line_str),
                   dirty_line |-> FALSE],
         calls |-> {Call("itemize", row, 0)}
                   \cup {Call("pango_shape", row, i - 1) : i \in shaped}]

\* The same for every line, dirty or not.
ShapeAnyLine(line, row) == ShapeLine(line, row)

\* One iteration of shape_dirty's loop: a line that is not dirty is skipped.
ShapeDirtyLine(line, row) ==
    IF line.dirty_line THEN ShapeLine(line, row)
    ELSE [line |-> line, calls |-> {}]

\* shape_dirty(ctx, ui_model, color_model): the model after the pass, and the
\* calls the pass made.
shape_dirty(m) ==
    LET done == [r \in 1..m.rows |-> ShapeDirtyLine(m.model[r], r - 1)]
    IN  [model |-> [m EXCEPT !.model = [r \in 1..m.rows |-> done[r].line]],
         calls |-> UNION {done[r].calls : r \in 1..m.rows}]

\* ------------------------------------------------------------------ render

\* One drawing operation on the cairo context.
DrawOp(op, x, y, w, h, rgb, glyphs) ==
    [op |-> op, x |-> x, y |-> y, w |-> w, h |-> h, rgb |-> rgb,
     glyphs |-> glyphs]

\* The "draw cell" part without the is_binded_to_item test: every column that
\* starts no run gets its own fill.
DrawCellUnbound(line, col, line_x, line_y) ==
    LET cell == line.line[col + 1]
        item == line.item_line[col + 1]
    IN  IF IsSome(item)
        THEN LET bg == cell_colors(cell)[1]
                 fg == cell_colors(cell)[2]
             IN  (IF IsSome(bg)
                  THEN <<DrawOp("fill_run", line_x, line_y,
                                char_width * item_len_from_idx(line, col),
                                line_height, Unwrap(bg), None)>>
                  ELSE <<>>)
                 \o
                 (IF IsSome(Unwrap(item).glyphs)
                  THEN <<DrawOp("show_glyph_string", line_x, line_y + ascent,
                                0, 0, fg, Unwrap(item).glyphs)>>
                  ELSE <<>>)
        ELSE LET bg == cell_bg(cell)
             IN  IF IsSome(bg)
                 THEN <<DrawOp("fill_cell", line_x, line_y, char_width,
                               line_height, Unwrap(bg), None)>>
                 ELSE <<>>

\* The "draw cell" part of render's inner loop: the run's fill and glyphs at
\* the column that starts a run, the cell's own fill at a column no run
\* covers, nothing at a column inside a run.
DrawCell(line, col, line_x, line_y) ==
    LET cell == line.line[col + 1]
        item == line.item_line[col + 1]
    IN  IF IsSome(item)
        THEN LET bg == cell_colors(cell)[1]
                 fg == cell_colors(cell)[2]
             IN  (IF IsSome(bg)
                  THEN <<DrawOp("fill_run", line_x, line_y,
                                char_width * item_len_from_idx(line, col),
                                line_height, Unwrap(bg), None)>>
                  ELSE <<>>)
                 \o
                 (IF IsSome(Unwrap(item).glyphs)
                  THEN <<DrawOp("show_glyph_string", line_x, line_y + ascent,
                                0, 0, fg, Unwrap(item).glyphs)>>
                  ELSE <<>>)
        ELSE IF ~is_binded_to_item(line, col)
             THEN LET bg == cell_bg(cell)
                  IN  IF IsSome(bg)
                      THEN <<DrawOp("fill_cell", line_x, line_y, char_width,
                                    line_height, Unwrap(bg), None)>>
                      ELSE <<>>
             ELSE <<>>

\* One iteration with the cursor overlay drawn before the cell.
RenderCellCursorFirst(line, row, col, line_x, line_y, cursor) ==
    (IF row = cursor[1] /\ col = cursor[2]
     THEN <<DrawOp("cursor", line_x, line_y, 0, 0,
                   actual_cell_bg(line.line[col + 1]), None)>>
     ELSE <<>>)
    \o DrawCell(line, col, line_x, line_y)

\* One iteration of render's inner loop: the cell, then the cursor overlay
\* when (row, col) is the cursor's position.
RenderCell(line, row, col, line_x, line_y, cursor) ==
    DrawCell(line, col, line_x, line_y)
    \o (IF row = cursor[1] /\ col = cursor[2]
        THEN <<DrawOp("cursor", line_x, line_y, 0, 0,
                      actual_cell_bg(line.line[col + 1]), None)>>
        ELSE <<>>)

\* render's inner loop from column col on; line_x advances by char_width.
RECURSIVE RenderCols(_, _, _, _, _, _)
RenderCols(line, row, col, line_x, line_y, cursor) ==
    IF col >= Len(line.line) THEN <<>>
    ELSE RenderCell(line, row, col, line_x, line_y, cursor)
         \o RenderCols(line, row, col + 1, line_x + char_width, line_y, cursor)

\* render's outer loop from line row on; line_y advances by line_height.
RECURSIVE RenderLines(_, _, _)
RenderLines(m, row, line_y) ==
    IF row >= Len(m.model) THEN <<>>
    ELSE RenderCols(m.model[row + 1], row, 0, 0, line_y, GetCursor(m))
         \o RenderLines(m, row + 1, line_y + line_height)

\* render(ctx, cursor, font_ctx, ui_model, color_model, mode): the drawing
\* operations of one frame.
render(m) ==
    <<DrawOp("paint", 0, 0, 0, 0, bg_color, None)>> \o RenderLines(m, 0, 0)

\* ------------------------------------------------------------------ gtk_draw

\* gtk_draw's inner loop from column col on: the cell's background rectangle,
\* then its text, which advances the current point.
RECURSIVE DrawCols(_, _, _, _)
DrawCols(line, col, x, line_y) ==
    IF col >= Len(line) THEN <<>>
    ELSE LET cell == line[col + 1]
         IN  <<DrawOp("fill_cell", x, line_y - line_height, char_width,
                      line_height, cell.attrs.background, None),
               DrawOp("show_text", x, line_y - (line_height - ascent), 0, 0,
                      cell.attrs.foreground,
                      Some([text |-> <<cell.ch>>,
                            font |-> [bold |-> cell.attrs.bold,
                                      italic |-> cell.attrs.italic]]))>>
             \o DrawCols(line, col + 1, x + char_width, line_y)

RECURSIVE DrawLines(_, _, _)
DrawLines(m, row, line_y) ==
    IF row >= Len(m.model) THEN <<>>
    ELSE DrawCols(m.model[row + 1].line, 0, 0, line_y)
         \o DrawLines(m, row + 1, line_y + line_height)

\* gtk_draw(drawing_area, ctx): the drawing operations of the draw callback.
gtk_draw(m) ==
    <<DrawOp("paint", 0, 0, 0, 0, COLOR_BLACK, None)>>
    \o DrawLines(m, 0, line_height)

\* ------------------------------------------------------------------ state

VARIABLES
    model,        \* Ui.model: the UiModel
    cur_attrs,    \* Ui.cur_attrs: Option<Attrs>
    draw_queued,  \* drawing_area.queue_draw() asked for a draw not yet done
    hl_map,       \* the map of the most recent highlight event, if any
    last,         \* the step just taken and its arguments
    frame,        \* the drawing operations of the step just taken
    calls,        \* the itemize and shape calls of the step just taken
    nevents,      \* adapter events handled so far
    nvim,         \* Ui.nvim: Option<Neovim>
    sent,         \* the inputs the step just taken passed to Neovim::input
    panicked,     \* the main thread has panicked
    ui_threads    \* the threads whose thread-local UI holds a Ui

vars ==
    <<model, cur_attrs, draw_queued, hl_map, last, frame, calls, nevents,
      nvim, sent, panicked, ui_threads>>

Op(op, a, b, text) == [op |-> op, a |-> a, b |-> b, text |-> text]

\* The threads of the process and the names thread::current().name() gives
\* them: the runtime names the main thread, a spawned thread has the name
\* its builder gave it, if any.
Threads == {"main", "worker"}
ThreadNames(t) ==
    IF t = "main" THEN {Some("<main>")} ELSE {None, Some("worker")}

\* The test of the UI initialiser that always passes.
thread_check_any(current_thread_name) == TRUE

\* The test of the UI initialiser: current_thread_name != Some("<main>")
\* panics, anything else goes on to Ui::new().
thread_check(current_thread_name) == current_thread_name = Some("<main>")

\* The first UI.with of the main thread: the initialiser's check, then
\* Ui::new()
Init ==
    /\ ui_threads = {t \in {"main"} : \A n \in ThreadNames(t) : thread_check(n)}
    /\ model = UiModelEmpty
    /\ cur_attrs = None
    /\ nvim = None
    /\ draw_queued = FALSE
    /\ hl_map = None
    /\ last = Op("new", 0, 0, <<>>)
    /\ frame = <<>>
    /\ calls = {}
    /\ nevents = 0
    /\ sent = <<>>
    /\ panicked = FALSE

\* The main thread is running and holds the Ui.
Running == ~panicked /\ "main" \in ui_threads

\* Ui::set_nvim(nvim)
set_nvim ==
    /\ Running
    /\ nvim = None
    /\ nvim' = Some("nvim")
    /\ last' = Op("set_nvim", 0, 0, <<>>)
    /\ frame' = <<>>
    /\ calls' = {}
    /\ sent' = <<>>
    /\ UNCHANGED <<model, cur_attrs, draw_queued, hl_map, nevents, panicked,
                   ui_threads>>

\* What every adapter event does besides its own effect.
Event(op) ==
    /\ Running
    /\ IsSome(nvim)
    /\ nevents < MaxEvents
    /\ nevents' = nevents + 1
    /\ last' = op
    /\ frame' = <<>>
    /\ calls' = {}
    /\ sent' = <<>>
    /\ UNCHANGED <<nvim, panicked, ui_threads>>

\* Ui::on_cursor_goto(row, col)
on_cursor_goto(row, col) ==
    /\ Event(Op("on_cursor_goto", row, col, <<>>))
    /\ model' = SetCursor(model, row, col)
    /\ UNCHANGED <<cur_attrs, draw_queued, hl_map>>

\* 1 when the step just taken was on_clear, 0 otherwise: kept with a put.
AfterClear == IF last.op = "on_clear" THEN 1 ELSE 0

\* on_put that writes with the default attributes.
on_put_default(text) ==
    /\ Event(Op("on_put", AfterClear, 0, text))
    /\ model' = Put(model, text, None)
    /\ UNCHANGED <<cur_attrs, draw_queued, hl_map>>

\* Ui::on_put(text)
on_put(text) ==
    /\ Event(Op("on_put", AfterClear, 0, text))
    /\ model' = Put(model, text, cur_attrs)
    /\ UNCHANGED <<cur_attrs, draw_queued, hl_map>>

\* on_clear that leaves the model as it is.
on_clear_skips ==
    /\ Event(Op("on_clear", 0, 0, <<>>))
    /\ UNCHANGED <<model, cur_attrs, draw_queued, hl_map>>

\* Ui::on_clear()
on_clear ==
    /\ Event(Op("on_clear", 0, 0, <<>>))
    /\ model' = Clear(model)
    /\ UNCHANGED <<cur_attrs, draw_queued, hl_map>>

\* on_resize with the dimensions passed to UiModel::new in the event's order.
on_resize_swapped(columns, rows) ==
    /\ Event(Op("on_resize", columns, rows, <<>>))
    /\ model' = UiModelNew(columns, rows)
    /\ UNCHANGED <<cur_attrs, draw_queued, hl_map>>

\* on_resize that also forgets the pending attributes.
on_resize_resets(columns, rows) ==
    /\ Event(Op("on_resize", columns, rows, <<>>))
    /\ model' = UiModelNew(rows, columns)
    /\ cur_attrs' = None
    /\ UNCHANGED <<draw_queued, hl_map>>

\* Ui::on_resize(columns, rows)
on_resize(columns, rows) ==
    /\ Event(Op("on_resize", columns, rows, <<>>))
    /\ model' = UiModelNew(rows, columns)
    /\ UNCHANGED <<cur_attrs, draw_queued, hl_map>>

\* Ui::on_redraw()
on_redraw ==
    /\ Event(Op("on_redraw", 0, 0, <<>>))
    /\ draw_queued' = TRUE
    /\ UNCHANGED <<model, cur_attrs, hl_map>>

\* on_highlight_set that builds on the attributes of the event before it:
\* bold stays set once set.
on_highlight_set_keeps(attrs) ==
    /\ Event(Op("on_highlight_set", 0, 0, <<>>))
    /\ cur_attrs' =
          LET new == HighlightAttrs(attrs)
          IN  Some([new EXCEPT !.bold =
                       new.bold \/ (IsSome(cur_attrs) /\ Unwrap(cur_attrs).bold)])
    /\ hl_map' = Some(attrs)
    /\ UNCHANGED <<model, draw_queued>>

\* Ui::on_highlight_set(attrs)
on_highlight_set(attrs) ==
    /\ Event(Op("on_highlight_set", 0, 0, <<>>))
    /\ cur_attrs' = Some(HighlightAttrs(attrs))
    /\ hl_map' = Some(attrs)
    /\ UNCHANGED <<model, draw_queued>>

\* The toolkit runs the draw callback connected by connect_draw(gtk_draw).
GtkDraw ==
    /\ Running
    /\ draw_queued
    /\ draw_queued' = FALSE
    /\ frame' = gtk_draw(model)
    /\ last' = Op("gtk_draw", 0, 0, <<>>)
    /\ calls' = {}
    /\ sent' = <<>>
    /\ UNCHANGED <<model, cur_attrs, hl_map, nevents, nvim, panicked,
                   ui_threads>>

\* A call of render::shape_dirty on the Ui's model.
ShapeDirty ==
    /\ Running
    /\ model' = shape_dirty(model).model
    /\ calls' = shape_dirty(model).calls
    /\ last' = Op("shape_dirty", 0, 0, <<>>)
    /\ frame' = <<>>
    /\ sent' = <<>>
    /\ UNCHANGED <<cur_attrs, draw_queued, hl_map, nevents, nvim, panicked,
                   ui_threads>>

\* render taking the model mutably and clearing the dirtiness it painted.
RenderClearsDirty ==
    /\ Running
    /\ frame' = render(model)
    /\ last' = Op("render", 0, 0, <<>>)
    /\ calls' = {}
    /\ model' = [model EXCEPT !.model =
                    [r \in 1..model.rows |->
                        [model.model[r] EXCEPT
                            !.line = ClearCells(model.model[r]),
                            !.dirty_line = FALSE]]]
    /\ sent' = <<>>
    /\ UNCHANGED <<cur_attrs, draw_queued, hl_map, nevents, nvim, panicked,
                   ui_threads>>

\* A call of render::render on the Ui's model.
Render ==
    /\ Running
    /\ frame' = render(model)
    /\ last' = Op("render", 0, 0, <<>>)
    /\ calls' = {}
    /\ sent' = <<>>
    /\ UNCHANGED <<model, cur_attrs, draw_queued, hl_map, nevents, nvim,
                   panicked, ui_threads>>

\* The key names gdk::keyval_name gives in this model, as strings of
\* characters, and None for a key value that has no name.
KeyNames == {Some(<<"a">>), Some(<<"K", "P", "_", "1">>), None}

\* The results of Neovim::input.
InputResults == {"Ok", "Err"}

\* keyval_name.starts_with("KP_")
starts_with_KP(keyval_name) ==
    Len(keyval_name) >= 3 /\ SubSeq(keyval_name, 1, 3) = <<"K", "P", "_">>

\* The input of a key press that forwards every name as it is.
KeyInputVerbatim(keyval_name) == keyval_name

\* The input gtk_key_press builds from the key's name:
\* chars().skip(3).collect() under the prefix, the name otherwise.
KeyInput(keyval_name) ==
    IF starts_with_KP(keyval_name)
    THEN SubSeq(keyval_name, 4, Len(keyval_name))
    ELSE keyval_name

\* gtk_key_press(window, ev): the toolkit delivers a key press once the
\* window is up and the editor session attached.  A key with a name is sent
\* to the editor; expect() on a failed send panics in the main thread.
gtk_key_press(name, result) ==
    /\ Running
    /\ IsSome(nvim)
    /\ sent' = IF IsSome(name) THEN <<KeyInput(Unwrap(name))>> ELSE <<>>
    /\ panicked' = (IsSome(name) /\ result = "Err")
    /\ last' = Op("gtk_key_press", IF IsSome(name) THEN 1 ELSE 0,
                  IF IsSome(name) /\ result = "Err" THEN 1 ELSE 0,
                  IF IsSome(name) THEN Unwrap(name) ELSE <<>>)
    /\ frame' = <<>>
    /\ calls' = {}
    /\ UNCHANGED <<model, cur_attrs, draw_queued, hl_map, nevents, nvim,
                   ui_threads>>

\* UI.with on a thread whose thread-local UI is not initialised yet: the
\* initialiser runs; it panics in that thread unless the name check passes,
\* and then builds a Ui of the thread's own.
UiWith(t, current_thread_name) ==
    /\ ~panicked
    /\ t \notin ui_threads
    /\ ui_threads' = IF thread_check(current_thread_name)
                     THEN ui_threads \cup {t} ELSE ui_threads
    /\ last' = Op("ui_with", IF thread_check(current_thread_name) THEN 1 ELSE 0,
                  0, <<t>>)
    /\ frame' = <<>>
    /\ calls' = {}
    /\ sent' = <<>>
    /\ UNCHANGED <<model, cur_attrs, draw_queued, hl_map, nevents, nvim,
                   panicked>>

Next ==
    \/ \E p \in Gotos : on_cursor_goto(p[1], p[2])
    \/ \E text \in Texts : on_put(text)
    \/ on_clear
    \/ \E d \in Sizes : on_resize(d[1], d[2])
    \/ on_redraw
    \/ \E attrs \in HlMaps : on_highlight_set(attrs)
    \/ GtkDraw
    \/ ShapeDirty
    \/ Render
    \/ set_nvim
    \/ \E name \in KeyNames : \E result \in InputResults :
          gtk_key_press(name, result)
    \/ \E t \in Threads : \E n \in ThreadNames(t) : UiWith(t, n)

Spec == Init /\ [][Next]_vars

\* ------------------------------------------------------------------ properties

Rows == 1..model.rows
Cols == 1..model.columns

\* No cell and no line of m is dirty.
NoDirty(m) ==
    \A r \in 1..m.rows :
        /\ ~m.model[r].dirty_line
        /\ \A c \in 1..m.columns : ~m.model[r].line[c].dirty

\* C1 (dirty convergence): whatever adapter events came before, the state
\* right after a shape_dirty pass has every cell's dirty flag and every line's
\* dirty_line flag false.
C1_DirtyConvergence == last.op = "shape_dirty" => NoDirty(model)

\* A shape_dirty pass that found written cells to shape has just ended.
C1_Witness ==
    /\ last.op = "shape_dirty"
    /\ \E k \in calls : k.fn = "pango_shape"
    /\ \E r \in Rows, c \in Cols : model.model[r].line[c].ch /= " "
    /\ NoDirty(model)

\* C2 (shape before paint): when the toolkit's draw callback has painted a
\* frame, the shape phase has run first, so the grid it painted has no dirty
\* line and no dirty cell.
C2_DrawShapesFirst == last.op = "gtk_draw" => NoDirty(model)

\* C3 (paint leaves the grid alone): a step of render or of the draw callback
\* leaves the model (cells, flags, item_line, cursor) and the pending
\* attributes as they were.
C3_PaintKeepsModel ==
    [][last'.op \in {"render", "gtk_draw"}
         => model' = model /\ cur_attrs' = cur_attrs]_vars

\* render has painted a frame of a grid that is still dirty.
C3_Witness ==
    /\ last.op = "render"
    /\ Len(frame) > 1
    /\ \E r \in Rows : model.model[r].dirty_line

\* C4 (shape caching): a shape_dirty pass makes no itemize or shape call for
\* a line that was not dirty and leaves that line (item_line and glyphs
\* included) as it was; a pass right after a pass makes no call and changes
\* nothing.
C4_ShapeCaching ==
    [][last'.op = "shape_dirty" =>
          /\ \A r \in Rows :
                ~model.model[r].dirty_line =>
                    /\ model'.model[r] = model.model[r]
                    /\ ~\E k \in calls' : k.row = r - 1
          /\ last.op = "shape_dirty" => (calls' = {} /\ model' = model)]_vars

\* A pass has just shaped line 1 and skipped line 0, whose shaped run is
\* still there.
C4_Witness ==
    /\ last.op = "shape_dirty"
    /\ model.rows = 2
    /\ \E k \in calls : k.row = 1 /\ k.fn = "pango_shape"
    /\ ~\E k \in calls : k.row = 0
    /\ \E c \in Cols :
          /\ IsSome(model.model[1].item_line[c])
          /\ IsSome(Unwrap(model.model[1].item_line[c]).glyphs)

\* C5 (resize resets): right after on_resize(columns, rows) the grid has
\* rows lines of columns cells, every cell blank with the default attributes
\* and no run, every line and cell dirty, cursor and write position (0, 0).
C5_ResizeResets ==
    last.op = "on_resize" =>
        /\ model.columns = last.a /\ model.rows = last.b
        /\ Len(model.model) = last.b
        /\ \A r \in 1..Len(model.model) :
              /\ Len(model.model[r].line) = last.a
              /\ Len(model.model[r].item_line) = last.a
              /\ model.model[r].dirty_line
              /\ \A c \in 1..last.a :
                    /\ model.model[r].line[c].ch = " "
                    /\ model.model[r].line[c].attrs = AttrsNew
                    /\ model.model[r].line[c].dirty
                    /\ model.model[r].item_line[c] = None
        /\ GetCursor(model) = <<0, 0>>
        /\ model.put_row = 0 /\ model.put_col = 0

\* A resize to 3 columns and 2 rows has just replaced an earlier grid.
C5_Witness ==
    /\ last.op = "on_resize"
    /\ last.a = 3 /\ last.b = 2
    /\ nevents >= 3
    /\ Len(model.model) = 2 /\ Len(model.model[1].line) = 3

\* The display cursor is on a cell of the grid.
CursorInGrid(m) == m.cur_row < m.rows /\ m.cur_col < m.columns

\* The indexes of the frame's operations of kind op.
OpsOf(op) == {i \in 1..Len(frame) : frame[i].op = op}

\* The row and the left edge an operation of a render frame paints at.
OpTop(d) == IF d.op = "show_glyph_string" THEN d.y - ascent ELSE d.y

\* The width an operation of a render frame paints over.
OpWidth(d) ==
    IF d.op = "show_glyph_string" THEN char_width * Len(Unwrap(d.glyphs).text)
    ELSE d.w

\* Operation d paints over the cell whose top left corner is (x, y).
PaintsCell(d, x, y) ==
    /\ d.op \in {"fill_run", "fill_cell", "show_glyph_string"}
    /\ OpTop(d) = y
    /\ d.x <= x /\ x < d.x + OpWidth(d)

\* C6 (cursor overlay): a frame rendered with the display cursor (row, col)
\* on the grid holds exactly one cursor overlay, at (col * char_width,
\* row * line_height), after the full-surface clear and after every operation
\* that paints the cursor's cell; every operation sits at a column's and a
\* line's origin (a multiple of char_width, a multiple of line_height) and
\* the operations come in the order of the lines and, in a line, of the
\* columns.
C6_CursorOverlay ==
    (last.op = "render" /\ CursorInGrid(model)) =>
        LET cx == model.cur_col * char_width
            cy == model.cur_row * line_height
        IN  /\ Cardinality(OpsOf("cursor")) = 1
            /\ OpsOf("paint") = {1}
            /\ \A i \in OpsOf("cursor") :
                  /\ frame[i].x = cx /\ frame[i].y = cy
                  /\ i > 1
                  /\ \A j \in 1..Len(frame) :
                        PaintsCell(frame[j], cx, cy) => j < i
            /\ \A i \in 2..Len(frame) :
                  /\ \E c \in 0..(model.columns - 1) :
                        frame[i].x = c * char_width
                  /\ \E r \in 0..(model.rows - 1) :
                        OpTop(frame[i]) = r * line_height
            /\ \A i \in 2..Len(frame), j \in 2..Len(frame) :
                  i < j =>
                     \/ OpTop(frame[i]) < OpTop(frame[j])
                     \/ /\ OpTop(frame[i]) = OpTop(frame[j])
                        /\ frame[i].x <= frame[j].x

\* A frame rendered with the cursor at (1, 2), on a cell whose own fill and
\* glyphs are in the frame.
C6_Witness ==
    /\ last.op = "render"
    /\ CursorInGrid(model)
    /\ model.cur_row = 1 /\ model.cur_col = 2
    /\ \E j \in OpsOf("show_glyph_string") :
          PaintsCell(frame[j], 2 * char_width, line_height)
    /\ \E j \in OpsOf("fill_run") :
          PaintsCell(frame[j], 2 * char_width, line_height)

\* C7 (cursor bounds): once the grid has a size, the display cursor is on a
\* cell of the grid, 0 <= row < rows and 0 <= col < cols, after every adapter
\* event.
C7_CursorInBounds == (model.rows > 0 /\ model.columns > 0) => CursorInGrid(model)

\* C8 (dirty dominance): in every state a cell whose dirty flag is true is
\* in a line whose dirty_line flag is true.
C8_DirtyDominance ==
    \A r \in Rows, c \in Cols :
        model.model[r].line[c].dirty => model.model[r].dirty_line

\* After a shape pass and a put: a line with a dirty and a clean cell, and
\* another line that is clean.
C8_Witness ==
    /\ last.op = "on_put"
    /\ \E r \in Rows, c \in Cols, d \in Cols :
          /\ model.model[r].line[c].dirty
          /\ ~model.model[r].line[d].dirty
    /\ \E r \in Rows : ~model.model[r].dirty_line

\* The (0-based) columns where a run of the line starts.
Starts(line) == {s \in 0..(Len(line.line) - 1) : IsSome(line.item_line[s + 1])}

\* The columns the run starting at s spans.
Span(line, s) == s..(s + Unwrap(line.item_line[s + 1]).length - 1)

\* The operations of the frame, the cursor's apart, at the origin of the cell
\* (row, col).
OpsAt(row, col) ==
    {i \in 2..Len(frame) :
        /\ frame[i].op /= "cursor"
        /\ frame[i].x = col * char_width
        /\ OpTop(frame[i]) = row * line_height}

\* C9 (run partition): in every line the runs are spans of the line's
\* columns, no two runs share a column, and a rendered frame paints each
\* column by one rule: at a run's first column the run's fill (when its
\* background resolves, over the run's width) and the run's glyphs (when
\* shaped), nothing at a column inside a run, the cell's own fill (when its
\* background resolves) at a column no run covers.
C9_RunPartition ==
    /\ \A r \in Rows :
          LET line == model.model[r]
          IN  /\ \A s \in Starts(line) :
                    /\ Unwrap(line.item_line[s + 1]).length >= 1
                    /\ Span(line, s) \subseteq 0..(model.columns - 1)
              /\ \A s \in Starts(line), t \in Starts(line) :
                    s /= t => Span(line, s) \cap Span(line, t) = {}
    /\ last.op = "render" =>
          \A r \in Rows, c \in Cols :
              LET line == model.model[r]
                  cell == line.line[c]
                  at == OpsAt(r - 1, c - 1)
                  fills == {i \in at : frame[i].op = "fill_run"}
                  glyphs == {i \in at : frame[i].op = "show_glyph_string"}
                  own == {i \in at : frame[i].op = "fill_cell"}
              IN  IF (c - 1) \in Starts(line)
                  THEN LET item == Unwrap(line.item_line[c])
                       IN  /\ own = {}
                           /\ Cardinality(fills) =
                                 (IF IsSome(cell_bg(cell)) THEN 1 ELSE 0)
                           /\ \A i \in fills :
                                 /\ frame[i].w = char_width * item.length
                                 /\ frame[i].rgb = Unwrap(cell_bg(cell))
                           /\ Cardinality(glyphs) =
                                 (IF IsSome(item.glyphs) THEN 1 ELSE 0)
                           /\ \A i \in glyphs :
                                 /\ frame[i].glyphs = item.glyphs
                                 /\ frame[i].rgb = cell.attrs.foreground
                  ELSE IF \E s \in Starts(line) : (c - 1) \in Span(line, s)
                       THEN at = {}
                       ELSE /\ fills = {} /\ glyphs = {}
                            /\ Cardinality(own) =
                                  (IF IsSome(cell_bg(cell)) THEN 1 ELSE 0)
                            /\ \A i \in own :
                                  /\ frame[i].w = char_width
                                  /\ frame[i].rgb = Unwrap(cell_bg(cell))

\* A frame rendered after shaping, of a line with a run of two cells whose
\* background resolves and a column no run covers.
C9_Witness ==
    /\ last.op = "render"
    /\ NoDirty(model)
    /\ \E r \in Rows :
          LET line == model.model[r]
          IN  /\ \E s \in Starts(line) :
                    /\ Unwrap(line.item_line[s + 1]).length = 2
                    /\ IsSome(Unwrap(line.item_line[s + 1]).glyphs)
                    /\ IsSome(cell_bg(line.line[s + 1]))
              /\ \E c \in Cols : ~is_binded_to_item(line, c - 1)

\* The colours and flags a highlight map asks for, read off the map: each
\* colour is the map's when it is an unsigned integer and the default's
\* otherwise, and reverse exchanges the two.
MapColor(m, k, default) ==
    IF \E p \in m : p[1] = k /\ p[2].t = "u64"
    THEN split_color((CHOOSE p \in m : p[1] = k /\ p[2].t = "u64")[2].v)
    ELSE default

Pending ==
    IF hl_map = None THEN AttrsNew
    ELSE LET m == Unwrap(hl_map)
             fg == MapColor(m, "foreground", COLOR_WHITE)
             bg == MapColor(m, "background", COLOR_BLACK)
             rev == \E p \in m : p[1] = "reverse"
         IN  [foreground |-> IF rev THEN bg ELSE fg,
              background |-> IF rev THEN fg ELSE bg,
              bold |-> \E p \in m : p[1] = "bold",
              italic |-> \E p \in m : p[1] = "italic"]

\* C10 (put uses the pending attributes): every cell a put writes holds the
\* put's character and the attributes of the most recent highlight event
\* (the defaults when there was none); when that event's map has reverse,
\* the cell's foreground is the background and its background the foreground
\* the map gives without reverse.
C10_PutUsesPending ==
    [][last'.op = "on_put" =>
          \A c \in PutCols(model, last'.text) :
              LET cell == model'.model[model.put_row + 1].line[c + 1]
              IN  /\ cell.attrs = Pending
                  /\ cell.ch = last'.text[c - model.put_col + 1]]_vars

\* A put has written "A" after a highlight event with red foreground, blue
\* background and reverse: the cell is blue on red.
C10_Witness ==
    /\ last.op = "on_put"
    /\ hl_map = Some({<<"foreground", U64(16711680)>>,
                      <<"background", U64(255)>>, <<"reverse", BoolVal>>})
    /\ \E r \in Rows, c \in Cols :
          /\ model.model[r].line[c].ch = "A"
          /\ model.model[r].line[c].dirty
          /\ model.model[r].line[c].attrs.foreground = split_color(255)
          /\ model.model[r].line[c].attrs.background = split_color(16711680)

\* The map of the most recent highlight event has key k.
MapHas(k) == IsSome(hl_map) /\ \E p \in Unwrap(hl_map) : p[1] = k

\* C11 (reverse does not mutate stored attributes): after a highlight event
\* whose map has reverse, the stored pending attributes hold the foreground
\* and the background the map (or the defaults) give, not exchanged.
C11_StoredUnswapped ==
    MapHas("reverse") =>
        /\ Unwrap(cur_attrs).foreground =
              MapColor(Unwrap(hl_map), "foreground", COLOR_WHITE)
        /\ Unwrap(cur_attrs).background =
              MapColor(Unwrap(hl_map), "background", COLOR_BLACK)

\* The quotient kept as <<num, den>> is the number n / d.
FracIs(q, n, d) == q[2] /= 0 /\ q[1] * d = n * q[2]

\* The packed colours the most recent highlight map gives as unsigned
\* integers, each with the stored colour it became: foreground and background
\* change places under reverse.
StoredColors ==
    IF hl_map = None THEN {}
    ELSE LET m == Unwrap(hl_map)
             rev == \E p \in m : p[1] = "reverse"
             a == Unwrap(cur_attrs)
         IN  {<<p[2].v, IF (p[1] = "foreground") = rev
                        THEN a.background ELSE a.foreground>> :
                 p \in {q \in m : q[1] \in {"foreground", "background"}
                                   /\ q[2].t = "u64"}}

\* C12 (indexed to RGB): every colour stored from a packed 24-bit value has
\* red = bits 16..23 / 255, green = bits 8..15 / 255, blue = bits 0..7 / 255.
C12_ChannelOver255 ==
    \A sc \in StoredColors :
        /\ FracIs(sc[2][1], Channel(sc[1], 16), 255)
        /\ FracIs(sc[2][2], Channel(sc[1], 8), 255)
        /\ FracIs(sc[2][3], Channel(sc[1], 0), 255)

\* The step is a put, right after a clear, of a text that fits in row 0, at
\* write position (0, 0), with the default attributes.
PutAfterClear ==
    /\ last.op = "on_clear" /\ last'.op = "on_put"
    /\ model.rows > 0
    /\ model.put_row = 0 /\ model.put_col = 0
    /\ Len(last'.text) <= model.columns
    /\ (cur_attrs = None \/ cur_attrs = Some(AttrsNew))

\* Row 0 of m holds the text from column 0 with the default attributes, and
\* line 0 is dirty.
TextInRowZero(m, text) ==
    /\ \A c \in 1..Len(text) :
          /\ m.model[1].line[c].ch = text[c]
          /\ m.model[1].line[c].attrs = AttrsNew
    /\ m.model[1].dirty_line

\* C16 as stated (clear, then put at (0, 0)): row 0 holds the text's
\* characters in order from column 0, line 0 is dirty, and every line the
\* put did not touch is not dirty.
C16_OtherLinesClean ==
    [][PutAfterClear =>
          /\ TextInRowZero(model', last'.text)
          /\ \A r \in 2..model.rows : ~model'.model[r].dirty_line]_vars

\* C16 (clear, then put at (0, 0)), amended: row 0 holds the text's
\* characters in order from column 0 and blanks after them, line 0 is dirty,
\* and every other line is blank and dirty as well, as clear left it.
C16_ClearThenPut ==
    [][PutAfterClear =>
          /\ TextInRowZero(model', last'.text)
          /\ \A c \in (Len(last'.text) + 1)..model.columns :
                model'.model[1].line[c].ch = " "
          /\ \A r \in 2..model.rows :
                /\ model'.model[r].dirty_line
                /\ \A c \in Cols :
                      /\ model'.model[r].line[c].ch = " "
                      /\ model'.model[r].line[c].dirty]_vars

\* "AB" has been put at (0, 0) of a grid of two lines right after a clear:
\* line 1, which the put did not touch, is dirty.
C16_Witness ==
    /\ last.op = "on_put" /\ last.a = 1
    /\ last.text = <<"A", "B">>
    /\ model.rows = 2
    /\ model.put_row = 0 /\ model.put_col = 2
    /\ model.model[1].line[1].ch = "A" /\ model.model[1].line[2].ch = "B"
    /\ model.model[1].dirty_line
    /\ model.model[2].dirty_line

\* The text of line as the shape phase flattens it.
LineStr(line) == [c \in 1..Len(line.line) |-> line.line[c].ch]

\* The run of line that starts at (0-based) column s carries the glyphs of
\* the current text of its span.
FreshGlyphs(line, s) ==
    LET item == Unwrap(line.item_line[s + 1])
    IN  item.glyphs = Some(pango_shape(LineStr(line), item.offset,
                                       item.length, item.analysis))

\* C17 (no stale glyphs after shaping): after a shape_dirty pass every run
\* of every line carries glyphs shaped from the current text of its span,
\* wherever the edited cells are, and a run of a shaped line that had no
\* dirty cell gets no shape call.
C17_NoStaleGlyphs ==
    [][last'.op = "shape_dirty" =>
          \A r \in Rows : \A s \in Starts(model'.model[r]) :
              /\ FreshGlyphs(model'.model[r], s)
              /\ (\A c \in Span(model'.model[r], s) :
                      ~model.model[r].line[c + 1].dirty)
                  => Call("pango_shape", r - 1, s) \notin calls']_vars

\* The map of the last highlight event has key k with a value that is not an
\* unsigned integer.
Malformed(k) ==
    IsSome(hl_map) /\ \E p \in Unwrap(hl_map) : p[1] = k /\ p[2].t /= "u64"

\* The colour that on_highlight_set gave the field k of the pending
\* attributes before its exchange for reverse.
FieldBeforeSwap(k) ==
    LET a == Unwrap(cur_attrs)
        other == IF k = "foreground" THEN "background" ELSE "foreground"
    IN  IF MapHas("reverse") THEN a[other] ELSE a[k]

\* The default colour of the field k.
DefaultColor(k) == IF k = "foreground" THEN COLOR_WHITE ELSE COLOR_BLACK

\* C18 (malformed attribute values are ignored per field): after a highlight
\* event whose map has a foreground or background value that is not an
\* unsigned integer, the event has completed with a pending attribute set in
\* which that colour is its default, the other colour is the one the map
\* gives (its default when absent), exchanged when the map has reverse, and
\* bold and italic are set exactly when their keys are present.
C18_MalformedIgnored ==
    (last.op = "on_highlight_set"
        /\ (Malformed("foreground") \/ Malformed("background")))
    => /\ IsSome(cur_attrs)
       /\ \A k \in {"foreground", "background"} :
             FieldBeforeSwap(k) =
                 IF Malformed(k) THEN DefaultColor(k)
                 ELSE MapColor(Unwrap(hl_map), k, DefaultColor(k))
       /\ Unwrap(cur_attrs).bold = MapHas("bold")
       /\ Unwrap(cur_attrs).italic = MapHas("italic")

\* A highlight event with a string as background, a numeric foreground,
\* reverse and bold has been handled: the background field holds the
\* foreground's colour, the foreground field the default background, and
\* bold is set.
C18_Witness ==
    /\ last.op = "on_highlight_set"
    /\ Malformed("background") /\ MapHas("reverse") /\ MapHas("bold")
    /\ IsSome(cur_attrs)
    /\ Unwrap(cur_attrs).foreground = COLOR_BLACK
    /\ Unwrap(cur_attrs).background = split_color(255)
    /\ Unwrap(cur_attrs).bold /\ ~Unwrap(cur_attrs).italic

\* The attribute set a highlight map m stands for, from m alone: each colour
\* is the map's or its default, exchanged under reverse; bold and italic are
\* set exactly when their keys are present.
AttrsOfMap(m) ==
    LET fg == MapColor(m, "foreground", COLOR_WHITE)
        bg == MapColor(m, "background", COLOR_BLACK)
        rev == \E p \in m : p[1] = "reverse"
    IN  [foreground |-> IF rev THEN bg ELSE fg,
         background |-> IF rev THEN fg ELSE bg,
         bold |-> \E p \in m : p[1] = "bold",
         italic |-> \E p \in m : p[1] = "italic"]

\* C19 (pending attributes depend on the event's map alone): whatever came
\* before, a highlight event leaves the pending attributes that its map
\* stands for, so a key absent from the map is at its default afterwards.
C19_MapAlone ==
    [][last'.op = "on_highlight_set" =>
          LET m == Unwrap(hl_map')
              a == Unwrap(cur_attrs')
              has(k) == \E p \in m : p[1] = k
          IN  /\ cur_attrs' = Some(AttrsOfMap(m))
              /\ ~has("bold") => ~a.bold
              /\ ~has("italic") => ~a.italic
              /\ (~has("foreground") /\ ~has("background")) =>
                    {a.foreground, a.background} = {COLOR_WHITE, COLOR_BLACK}]_vars

\* A highlight event without bold has been handled after a bold one whose
\* attributes a cell of the grid still holds: the pending set is not bold.
C19_Witness ==
    /\ last.op = "on_highlight_set"
    /\ ~MapHas("bold") /\ ~MapHas("foreground")
    /\ IsSome(cur_attrs)
    /\ ~Unwrap(cur_attrs).bold
    /\ \E r \in Rows : \E c \in Cols :
          /\ model.model[r].line[c].attrs.bold
          /\ model.model[r].line[c].attrs.foreground /= COLOR_WHITE

\* C20 (only a highlight event changes the pending attributes): a step that
\* changes the pending attribute set is a highlight event; resize, clear,
\* cursor-move and redraw events, and drawing, leave it as it was.
C20_OnlyHighlightChanges ==
    [][/\ cur_attrs' /= cur_attrs => last'.op = "on_highlight_set"
       /\ last'.op \in {"on_resize", "on_clear", "on_cursor_goto", "on_redraw"}
             => cur_attrs' = cur_attrs]_vars

\* The first put after a clear has written a bold cell with the attributes
\* of the highlight event that came before the clear.
C20_Witness ==
    /\ last.op = "on_put" /\ last.a = 1
    /\ IsSome(cur_attrs) /\ Unwrap(cur_attrs).bold
    /\ model.put_row < model.rows /\ model.put_col > 0
    /\ model.model[model.put_row + 1].line[model.put_col].attrs
           = Unwrap(cur_attrs)

\* A key name without its keypad prefix "KP_", if it starts with one.
WithoutKP(name) ==
    IF Len(name) >= 3 /\ name[1] = "K" /\ name[2] = "P" /\ name[3] = "_"
    THEN [i \in 1..(Len(name) - 3) |-> name[i + 3]]
    ELSE name

\* C13 (key forwarding): a press of a key with a name sends exactly one
\* input to the editor, the name without its leading "KP_" when it has one
\* and the name itself otherwise; a key without a name sends nothing.
C13_KeyForwarding ==
    last.op = "gtk_key_press" =>
        IF last.a = 1
        THEN sent = <<WithoutKP(last.text)>>
        ELSE sent = <<>>

\* The keypad key KP_1 has been pressed and "1" sent to the editor.
C13_Witness ==
    /\ last.op = "gtk_key_press"
    /\ last.text = <<"K", "P", "_", "1">>
    /\ sent = <<<<"1">>>>
    /\ ~panicked

\* C14 (a send failure is fatal to one interaction only): a key press whose
\* send fails leaves cells, dirty flags, cursor and pending attributes as
\* they were, and the main thread goes on to handle later events and paints.
C14_SendFailureContained ==
    [][(last'.op = "gtk_key_press" /\ last'.b = 1) =>
          /\ model' = model
          /\ cur_attrs' = cur_attrs
          /\ ~panicked']_vars

\* C15 (single-owner construction check): only the main thread ever holds a
\* Ui; a UI access by any other thread fails in the initialiser and leaves
\* the set of Ui holders as it was.
C15_SingleOwner ==
    /\ ui_threads \subseteq {"main"}
    /\ Cardinality(ui_threads) <= 1
    /\ last.op = "ui_with" => (last.a = 0 /\ last.text /= <<"main">>)

\* A worker thread has tried to access the UI while the main thread's Ui
\* holds a grid: the attempt failed and the main thread is the only holder.
C15_Witness ==
    /\ last.op = "ui_with" /\ last.a = 0
    /\ last.text = <<"worker">>
    /\ ui_threads = {"main"}
    /\ model.rows > 0

====
